---- MODULE Spec2Model ----
(***************************************************************************)
(* CerviHealth: the data-access layer (services/firestore.js), the OTP     *)
(* stub (services/auth.js) and the screen handlers that call them,         *)
(* modelled over a document store with five collections.                   *)
(*                                                                         *)
(* A document is a function from field names to values.  A JavaScript      *)
(* object spread {a, ...x, b} is modelled by @@, which is left-biased, so  *)
(* the LAST property written in the source is the LEFTMOST operand here.   *)
(***************************************************************************)
EXTENDS Integers, Sequences, FiniteSets, TLC

VARIABLES
    db,       \* the Firestore collections: users, patients, screenings, appointments, notifications
    lastOp,   \* the last data-access invocation: its name, arguments, backend calls, error and result
    budget,   \* how many more operations this run performs
    currentUser,   \* auth.currentUser: the uid of the signed-in user, or NULL
    confirmation,  \* the confirmation object sendOTP returned last, or NoConfirmation
    otpResult,     \* the last verifyOTP call: the code entered, the error thrown, the value returned
    reg,      \* the saveUserData calls in flight: for each registering user, where the call stands
    ui,       \* the last screen handler that ran: what failed in it and what the screen shows
    enh,      \* the state of ImageEnhancementScreen: the URLs, the sliders, the error text
    rev       \* the updateScreeningReview calls in flight: for each doctor, where the call stands

dataVars == <<db, lastOp, budget>>
authVars == <<currentUser, confirmation, otpResult>>
vars == <<dataVars, authVars, reg, ui, enh, rev>>

---------------------------------------------------------------------------
(* Bounds of the model *)

MaxOps == 3           \* operations of one run of the screening workflow (Spec)
MaxOpsAll == 2        \* operations of one run over the whole data-access layer (SpecAll)
MaxSavePatient == 1   \* patients a healthcare worker adds while users register (SpecReg)

---------------------------------------------------------------------------
(* JavaScript values *)

NULL == "null"          \* null / undefined
NoErr == "none"         \* no exception is propagating
TS == "ts"              \* serverTimestamp() / Timestamp.now(): the instant is abstracted

Truthy(v) == v # NULL /\ v # ""

Get(d, f) == IF f \in DOMAIN d THEN d[f] ELSE NULL

---------------------------------------------------------------------------
(* The backend: one operator per Firestore SDK call.  A context cx carries *)
(* the collections, the log of backend calls of this invocation, the index *)
(* of the call the environment fails (0: none) and the exception that is   *)
(* propagating.  Once an exception propagates, no later statement runs.    *)

StartOn(d, f) ==
    [db |-> d, calls |-> <<>>, failAt |-> f, err |-> NoErr, ret |-> NULL]

Start(f) == StartOn(db, f)

Exists(d, coll, id) == id \in DOMAIN d[coll]

NewId(d, coll) ==
    (CASE coll = "patients" -> "p"
       [] coll = "screenings" -> "s"
       [] coll = "appointments" -> "a"
       [] OTHER -> "n") \o ToString(Cardinality(DOMAIN d[coll]) + 1)

Call(cx, op, coll, id, possible, newColl) ==
    IF cx.err # NoErr THEN cx
    ELSE LET n == Len(cx.calls) + 1
             e == IF n = cx.failAt THEN "unavailable"
                  ELSE IF ~possible THEN "not-found" ELSE NoErr
         IN [cx EXCEPT
               !.calls = Append(@, [op |-> op, coll |-> coll, id |-> id, err |-> e]),
               !.db = IF e = NoErr THEN [@ EXCEPT ![coll] = newColl] ELSE @,
               !.err = e]

addDoc(cx, coll, data) ==
    LET id == NewId(cx.db, coll)
    IN Call(cx, "addDoc", coll, id, TRUE, (id :> data) @@ cx.db[coll])

setDoc(cx, coll, id, data) ==
    Call(cx, "setDoc", coll, id, TRUE, (id :> data) @@ cx.db[coll])

updateDoc(cx, coll, id, data) ==
    Call(cx, "updateDoc", coll, id, Exists(cx.db, coll, id),
         (id :> (data @@ cx.db[coll][id])) @@ cx.db[coll])

getDoc(cx, coll, id) ==
    Call(cx, "getDoc", coll, id, TRUE, cx.db[coll])

getDocs(cx, coll) ==
    Call(cx, "getDocs", coll, NULL, TRUE, cx.db[coll])

\* A catch block that logs the error and does not throw it again.
Swallow(cx) == [cx EXCEPT !.err = NoErr]

\* A catch block that undoes the writes of the invocation before it throws.
RollBack(cx) == IF cx.err # NoErr THEN [cx EXCEPT !.db = db] ELSE cx

\* catch (error) { console.error(...); throw error; }
Rethrow(cx) == cx

\* return v;
Return(cx, v) == IF cx.err # NoErr THEN cx ELSE [cx EXCEPT !.ret = v]

---------------------------------------------------------------------------
(* services/firestore.js *)

CurrentYear == 2025     \* new Date().getFullYear()

RECURSIVE padStart(_, _, _)
padStart(str, targetLength, padString) ==
    IF Len(str) >= targetLength THEN str
    ELSE padStart(padString \o str, targetLength, padString)

\* The ID generatePatientId builds from the size of the patients snapshot.
PatientIdFor(size) ==
    "PT-" \o ToString(CurrentYear) \o "-" \o padStart(ToString(size + 1), 5, "0")

generatePatientId(cx) ==
    Rethrow(Return(getDocs(cx, "patients"),
                   PatientIdFor(Cardinality(DOMAIN cx.db.patients))))

\* A registration that adds a patients document for every role.
saveUserDataAlwaysAddingPatient(cx, userId, name, email, phoneNumber, role) ==
    LET c1 == IF role = "Patient" THEN generatePatientId(cx) ELSE cx
        patientId == IF role = "Patient" THEN c1.ret ELSE NULL
        c2 == setDoc(c1, "users", userId,
                  [name |-> name, email |-> email, phoneNumber |-> phoneNumber,
                   role |-> role, patientId |-> patientId,
                   createdAt |-> TS, updatedAt |-> TS])
    IN Return(addDoc(c2, "patients",
                  [name |-> name, phoneNumber |-> phoneNumber,
                   patientId |-> patientId, userId |-> userId,
                   createdAt |-> TS, updatedAt |-> TS]), NULL)

saveUserData(cx, userId, name, email, phoneNumber, role) ==
    LET c1 == IF role = "Patient" THEN generatePatientId(cx) ELSE cx
        patientId == IF role = "Patient" THEN c1.ret ELSE NULL
        c2 == setDoc(c1, "users", userId,
                  [name |-> name, email |-> email, phoneNumber |-> phoneNumber,
                   role |-> role, patientId |-> patientId,
                   createdAt |-> TS, updatedAt |-> TS])
        c3 == IF role = "Patient"
              THEN addDoc(c2, "patients",
                       [name |-> name, phoneNumber |-> phoneNumber,
                        patientId |-> patientId, userId |-> userId,
                        createdAt |-> TS, updatedAt |-> TS])
              ELSE c2
    IN Rethrow(Return(c3, NULL))

getUserData(cx, userId) ==
    Rethrow(getDoc(cx, "users", userId))

updateUserData(cx, userId, data) ==
    Rethrow(Return(
        updateDoc(cx, "users", userId, ("updatedAt" :> TS) @@ data),
        "true"))

savePatient(cx, patientData) ==
    LET id == NewId(cx.db, "patients")
    IN Rethrow(Return(
           addDoc(cx, "patients", [createdAt |-> TS, updatedAt |-> TS] @@ patientData),
           id))

getPatient(cx, patientId) ==
    Rethrow(getDoc(cx, "patients", patientId))

getScreeningRecord(cx, screeningId) ==
    Rethrow(getDoc(cx, "screenings", screeningId))

createNotification(cx, recipientId, type, title, message, data) ==
    Rethrow(addDoc(cx, "notifications",
        [recipientId |-> recipientId, type |-> type, title |-> title,
         message |-> message, data |-> data, read |-> FALSE, createdAt |-> TS]))

\* The rows of getUserNotifications(userId): the query where('recipientId', '==', userId).
getUserNotificationsRows(d, userId) ==
    {n \in DOMAIN d.notifications : d.notifications[n].recipientId = userId}

getUserNotifications(cx, userId) ==
    Rethrow(Return(getDocs(cx, "notifications"),
                   getUserNotificationsRows(cx.db, userId)))

\* A mark-as-read that toggles the flag.
markNotificationAsReadToggling(cx, notificationId) ==
    Return(
        updateDoc(cx, "notifications", notificationId,
                  [read |-> IF Exists(cx.db, "notifications", notificationId)
                            THEN ~cx.db.notifications[notificationId].read ELSE TRUE,
                   updatedAt |-> TS]),
        "true")

markNotificationAsRead(cx, notificationId) ==
    Rethrow(Return(
        updateDoc(cx, "notifications", notificationId,
                  [read |-> TRUE, updatedAt |-> TS]),
        "true"))

createScreeningRecord(cx, screeningData) ==
    LET id == NewId(cx.db, "screenings")
        c1 == addDoc(cx, "screenings",
                     [createdAt |-> TS, updatedAt |-> TS] @@ screeningData)
        patientId == Get(screeningData, "patientId")
        c2 == IF Truthy(patientId) THEN getPatient(c1, patientId) ELSE c1
        c3 == IF Truthy(patientId) /\ Exists(c2.db, "patients", patientId)
              THEN createNotification(c2, patientId, "NewReport",
                       "New Report Available",
                       "Your cervical screening report has been uploaded.",
                       [screeningId |-> id])
              ELSE c2
    IN Rethrow(Return(c3, id))

\* An image update that puts the screening back in the review queue.
updateScreeningImageResettingStatus(cx, screeningId, adjustedImageUrl) ==
    Return(
        updateDoc(cx, "screenings", screeningId,
                  [adjustedImageUrl |-> adjustedImageUrl, status |-> "Uploaded",
                   updatedAt |-> TS]),
        "true")

updateScreeningImage(cx, screeningId, adjustedImageUrl) ==
    Rethrow(Return(
        updateDoc(cx, "screenings", screeningId,
                  [adjustedImageUrl |-> adjustedImageUrl, updatedAt |-> TS]),
        "true"))

\* A review write that leaves the screening's status alone.
reviewFieldsWithoutStatus(reviewStatus, doctorComments, doctorId) ==
    [reviewStatus |-> reviewStatus, doctorComments |-> doctorComments,
     doctorId |-> doctorId, updatedAt |-> TS]

\* The fields updateScreeningReview writes.
reviewFields(reviewStatus, doctorComments, doctorId) ==
    [reviewStatus |-> reviewStatus, doctorComments |-> doctorComments,
     doctorId |-> doctorId, status |-> "Reviewed", updatedAt |-> TS]

updateScreeningReview(cx, screeningId, reviewStatus, doctorComments, doctorId) ==
    LET c1 == updateDoc(cx, "screenings", screeningId,
                        reviewFields(reviewStatus, doctorComments, doctorId))
        c2 == getScreeningRecord(c1, screeningId)
        found == Exists(c2.db, "screenings", screeningId)
        screeningData == c2.db.screenings[screeningId]
        c3 == IF found THEN getPatient(c2, Get(screeningData, "patientId")) ELSE c2
        c4 == IF found /\ Truthy(Get(screeningData, "healthcareWorkerId"))
              THEN createNotification(c3, screeningData.healthcareWorkerId,
                       "ReviewCompleted", "Review Completed",
                       "The screening report for ${patientName} has been reviewed.",
                       [screeningId |-> screeningId])
              ELSE c3
        c5 == IF found /\ Truthy(Get(screeningData, "patientId"))
              THEN createNotification(c4, screeningData.patientId,
                       "ReviewCompleted", "Review Completed",
                       "Your screening report has been reviewed by the doctor.",
                       [screeningId |-> screeningId])
              ELSE c4
    IN Rethrow(Return(c5, "true"))

\* The loop of getPendingScreenings over the rows of the query
\* where('status', '==', 'Uploaded'): one patients read and one users read per
\* row.  The final sort by createdAt is not modelled (instants are abstracted).
RECURSIVE pendingRows(_, _, _)
pendingRows(cx, ids, screenings) ==
    IF ids = {} \/ cx.err # NoErr THEN Return(cx, screenings)
    ELSE LET id == CHOOSE x \in ids : TRUE
             data == cx.db.screenings[id]
             pid == Get(data, "patientId")
             hw == Get(data, "healthcareWorkerId")
             c1 == IF Truthy(pid) THEN getDoc(cx, "patients", pid) ELSE cx
             patientName == IF Truthy(pid) /\ Exists(cx.db, "patients", pid)
                            THEN cx.db.patients[pid].name ELSE "Unknown Patient"
             c2 == IF Truthy(hw) THEN getUserData(c1, hw) ELSE c1
             healthcareWorkerName ==
                 IF ~Truthy(hw) THEN "N/A"
                 ELSE IF Exists(cx.db, "users", hw) THEN cx.db.users[hw].name
                 ELSE "Unknown HCW"
         IN pendingRows(c2, ids \ {id},
                Append(screenings, [id |-> id, patientName |-> patientName,
                                    healthcareWorkerName |-> healthcareWorkerName]))

getPendingScreenings(cx) ==
    LET c1 == getDocs(cx, "screenings")
    IN Rethrow(pendingRows(c1,
           {id \in DOMAIN cx.db.screenings : Get(cx.db.screenings[id], "status") = "Uploaded"},
           <<>>))

\* An appointment whose supplied data are spread last.
createAppointmentDataLast(cx, appointmentData) ==
    LET id == NewId(cx.db, "appointments")
    IN Return(
           addDoc(cx, "appointments",
                  appointmentData
                      @@ [type |-> "screening", createdAt |-> TS, updatedAt |-> TS]),
           id)

createAppointment(cx, appointmentData) ==
    LET id == NewId(cx.db, "appointments")
    IN Rethrow(Return(
           addDoc(cx, "appointments",
                  [type |-> "screening", createdAt |-> TS, updatedAt |-> TS]
                      @@ appointmentData),
           id))

\* A status update that removes the appointment when it is cancelled.
updateAppointmentStatusRemoving(cx, appointmentId, status, additionalData) ==
    IF status = "Cancelled"
    THEN Rethrow(Return(
             Call(cx, "deleteDoc", "appointments", appointmentId, TRUE,
                  [a \in DOMAIN cx.db.appointments \ {appointmentId} |->
                      cx.db.appointments[a]]),
             "true"))
    ELSE Rethrow(Return(
             updateDoc(cx, "appointments", appointmentId,
                       ("updatedAt" :> TS) @@ additionalData @@ ("status" :> status)),
             "true"))

updateAppointmentStatus(cx, appointmentId, status, additionalData) ==
    Rethrow(Return(
        updateDoc(cx, "appointments", appointmentId,
                  ("updatedAt" :> TS) @@ additionalData @@ ("status" :> status)),
        "true"))

createAppointmentNotification(cx, recipientId, title, message, appointmentId) ==
    LET id == NewId(cx.db, "notifications")
    IN Rethrow(Return(
           addDoc(cx, "notifications",
                  [recipientId |-> recipientId, type |-> "appointment", title |-> title,
                   message |-> message, data |-> [appointmentId |-> appointmentId],
                   read |-> FALSE, createdAt |-> TS]),
           id))

\* An edit of the review that also writes status 'Reviewed'.
updateDoctorScreeningReviewDetailsMarkingReviewed(cx, screeningId, newReviewStatus, newDoctorComments, healthcareWorkerId, doctorName, patientNameForNotif) ==
    LET c1 == updateDoc(cx, "screenings", screeningId,
                  [reviewStatus |-> newReviewStatus, doctorComments |-> newDoctorComments,
                   status |-> "Reviewed", updatedAt |-> TS])
        c2 == IF Truthy(healthcareWorkerId)
              THEN createNotification(c1, healthcareWorkerId, "ReviewUpdated",
                       "Screening Review Updated",
                       "Dr. ${doctorName} has updated the review for ${patientNameForNotif}. New status: ${newReviewStatus}.",
                       [screeningId |-> screeningId])
              ELSE c1
    IN Return(c2, "true")

updateDoctorScreeningReviewDetails(cx, screeningId, newReviewStatus, newDoctorComments, healthcareWorkerId, doctorName, patientNameForNotif) ==
    LET c1 == updateDoc(cx, "screenings", screeningId,
                  [reviewStatus |-> newReviewStatus, doctorComments |-> newDoctorComments,
                   updatedAt |-> TS])
        c2 == IF Truthy(healthcareWorkerId)
              THEN createNotification(c1, healthcareWorkerId, "ReviewUpdated",
                       "Screening Review Updated",
                       "Dr. ${doctorName} has updated the review for ${patientNameForNotif}. New status: ${newReviewStatus}.",
                       [screeningId |-> screeningId])
              ELSE c1
    IN Rethrow(Return(c2, "true"))

createDoctorAppointment(cx, appointmentData) ==
    LET id == NewId(cx.db, "appointments")
        c1 == addDoc(cx, "appointments",
                  [type |-> "doctor", status |-> "Pending",
                   createdAt |-> TS, updatedAt |-> TS] @@ appointmentData)
        c2 == IF Truthy(Get(appointmentData, "doctorId"))
              THEN createNotification(c1, appointmentData.doctorId, "APPOINTMENT_REQUEST",
                       "New Appointment Request",
                       "Patient ${appointmentData.patientName} has requested an appointment.",
                       [appointmentId |-> id])
              ELSE c1
        c3 == IF Truthy(Get(appointmentData, "patientId"))
              THEN createNotification(c2, appointmentData.patientId, "APPOINTMENT_UPDATE",
                       "Appointment Requested",
                       "Your appointment request with a doctor has been submitted.",
                       [appointmentId |-> id])
              ELSE c2
    IN Rethrow(Return(c3, id))

updatePatient(cx, patientId, updateData) ==
    LET defaultData ==
            ("updatedAt" :> TS) @@ updateData @@
            [email |-> "", address |-> "", bloodGroup |-> "", menstrualStatus |-> "",
             symptoms |-> <<>>, medicalHistory |-> ""]
    IN Rethrow(Return(updateDoc(cx, "patients", patientId, defaultData), "true"))

\* a || b on strings
OrElse(a, b) == IF Truthy(a) THEN a ELSE b

updatePatientWithMissingFields(cx, patientId, additionalData) ==
    LET defaultData ==
            additionalData @@
            [email |-> OrElse(Get(additionalData, "email"), "patient@example.com"),
             address |-> OrElse(Get(additionalData, "address"), "123 Main Street, City"),
             bloodGroup |-> OrElse(Get(additionalData, "bloodGroup"), "O+"),
             menstrualStatus |-> OrElse(Get(additionalData, "menstrualStatus"), "Pre-Menopausal"),
             symptoms |-> IF "symptoms" \in DOMAIN additionalData
                          THEN additionalData.symptoms ELSE <<"None">>,
             medicalHistory |-> OrElse(Get(additionalData, "medicalHistory"),
                                       "No significant medical history")]
    IN Rethrow(updatePatient(cx, patientId, defaultData))

\* !patient.email || !patient.address || ... (an array, even empty, is truthy)
needsUpdate(patient) ==
    \/ ~Truthy(Get(patient, "email"))
    \/ ~Truthy(Get(patient, "address"))
    \/ ~Truthy(Get(patient, "bloodGroup"))
    \/ ~Truthy(Get(patient, "menstrualStatus"))
    \/ "symptoms" \notin DOMAIN patient
    \/ ~Truthy(Get(patient, "medicalHistory"))

\* The loop over patientsSnapshot.docs; the snapshot is read once, before the loop.
RECURSIVE updateEachPatient(_, _, _, _)
updateEachPatient(cx, snapshot, ids, updatedCount) ==
    IF ids = {} \/ cx.err # NoErr THEN Return(cx, updatedCount)
    ELSE LET id == CHOOSE x \in ids : TRUE
         IN IF needsUpdate(snapshot[id])
            THEN updateEachPatient(updatePatient(cx, id, <<>>), snapshot,
                                   ids \ {id}, updatedCount + 1)
            ELSE updateEachPatient(cx, snapshot, ids \ {id}, updatedCount)

updateAllPatientsWithMissingFields(cx) ==
    LET c1 == getDocs(cx, "patients")
    IN Rethrow(updateEachPatient(c1, cx.db.patients, DOMAIN cx.db.patients, 0))

---------------------------------------------------------------------------
(* The state after construction: three registered users, one of them a     *)
(* patient with the patients document saveUserData adds.                   *)

EmptyDb ==
    [users |-> <<>>, patients |-> <<>>, screenings |-> <<>>,
     appointments |-> <<>>, notifications |-> <<>>]

Registered(d, userId, name, role) ==
    saveUserData(StartOn(d, 0), userId, name, name \o "@mail", "+9100", role).db

InitDb ==
    Registered(Registered(Registered(EmptyDb,
        "u1", "Asha", "Patient"), "h1", "Hari", "Healthcare Worker"), "d1", "Devi", "Doctor")

NoOp == [name |-> "none", args |-> <<>>, calls |-> <<>>, err |-> NoErr, ret |-> NULL]

NoConfirmation == [sent |-> FALSE, user |-> NULL]
NoOtp == [called |-> FALSE, otp |-> [t |-> "string", v |-> ""], err |-> NoErr, user |-> NULL]

Registrants == {"u2", "u3"}
Reviewers == {"d1", "d2"}
NoTransformations == [brightness |-> 0, contrast |-> 0, saturation |-> 0, sharpness |-> 0]
NoEnh ==
    [phase |-> "loading", screeningId |-> NULL, originalImageUrl |-> "", previewUrl |-> "",
     transformations |-> NoTransformations, error |-> ""]
NoReview ==
    [pc |-> "idle", screeningId |-> NULL, reviewStatus |-> NULL, doctorComments |-> NULL,
     screeningData |-> <<>>]
NoUi == [handler |-> "none", failed |-> FALSE, shown |-> "none"]

AuthInit ==
    /\ currentUser = NULL
    /\ confirmation = NoConfirmation
    /\ otpResult = NoOtp
    /\ reg = [u \in Registrants |-> [pc |-> "idle", role |-> NULL, patientId |-> NULL]]
    /\ ui = NoUi
    /\ enh = NoEnh
    /\ rev = [d \in Reviewers |-> NoReview]

Init ==
    /\ db = InitDb
    /\ lastOp = NoOp
    /\ budget = MaxOps
    /\ AuthInit

Finish(name, args, cx) ==
    /\ UNCHANGED <<authVars, enh, rev, reg, ui>>
    /\ budget' = budget - 1
    /\ db' = cx.db
    /\ lastOp' = [name |-> name, args |-> args, calls |-> cx.calls,
                  err |-> cx.err, ret |-> cx.ret]

\* One invocation: the environment lets every backend call succeed (failAt = 0)
\* or fails exactly one of the calls the invocation makes.
Invoke(name, args, cx) ==
    /\ cx.failAt <= Len(cx.calls)
    /\ Finish(name, args, cx)

FailAt == 0..6
PatientArgs == {"p1", "p2"}
ScreeningArgs == {"s1", "s2"}
AppointmentArgs == {"a1", "a2"}
NotificationArgs == {"n1", "n2"}

CreateScreeningRecord ==
    \E pid \in PatientArgs, v \in {<<"Uploaded", "h1">>, <<"Pending", "">>}, f \in FailAt :
        LET screeningData == [patientId |-> pid, imageUrl |-> "img", status |-> v[1],
                              healthcareWorkerId |-> v[2]]
        IN /\ budget > 0
           /\ Invoke("createScreeningRecord", screeningData,
                     createScreeningRecord(Start(f), screeningData))

UpdateScreeningImage ==
    \E sid \in ScreeningArgs, f \in FailAt :
        /\ budget > 0
        /\ Invoke("updateScreeningImage", [screeningId |-> sid],
                  updateScreeningImage(Start(f), sid, "img/e_brightness:10"))

UpdateScreeningReview ==
    \E sid \in ScreeningArgs, f \in FailAt,
       v \in {<<"Normal", "", "d1">>, <<"Abnormal", "follow up", "d2">>} :
        /\ budget > 0
        /\ Invoke("updateScreeningReview",
                  [screeningId |-> sid, reviewStatus |-> v[1], doctorComments |-> v[2],
                   doctorId |-> v[3]],
                  updateScreeningReview(Start(f), sid, v[1], v[2], v[3]))

CreateDoctorAppointment ==
    \E v \in {<<"d1", [type |-> "doctor"]>>, <<"", [type |-> "doctor"]>>,
              <<"d1", [type |-> "screening", status |-> "Accepted"]>>},
       f \in FailAt :
        LET appointmentData == v[2] @@
                               [patientId |-> "p1", patientName |-> "Asha", doctorId |-> v[1],
                                requestedDate |-> TS, notes |-> ""]
        IN /\ budget > 0
           /\ Invoke("createDoctorAppointment", appointmentData,
                     createDoctorAppointment(Start(f), appointmentData))

Next ==
    \/ CreateScreeningRecord
    \/ UpdateScreeningImage
    \/ UpdateScreeningReview
    \/ CreateDoctorAppointment

Spec == Init /\ [][Next]_vars

---------------------------------------------------------------------------
(* SpecAll: every writing function of services/firestore.js and two of its *)
(* queries, called with arguments from small sets.                         *)

SaveUserData ==
    \E role \in {"Patient", "Doctor"}, f \in FailAt :
        /\ budget > 0
        /\ Invoke("saveUserData", [userId |-> "u2", role |-> role],
                  saveUserData(Start(f), "u2", "Bina", "bina@mail", "+9101", role))

UpdateUserData ==
    \E uid \in {"u1", "u9"}, f \in FailAt :
        /\ budget > 0
        /\ Invoke("updateUserData", [userId |-> uid],
                  updateUserData(Start(f), uid, [phoneNumber |-> "+9102"]))

SavePatient ==
    \E f \in FailAt :
        LET patientData == [name |-> "Chitra", age |-> "41", phoneNumber |-> "+9103",
                            email |-> "chitra@mail"]
        IN /\ budget > 0
           /\ Invoke("savePatient", patientData, savePatient(Start(f), patientData))

CreateNotification ==
    \E f \in FailAt :
        /\ budget > 0
        /\ Invoke("createNotification", [recipientId |-> "h1"],
                  Return(createNotification(Start(f), "h1", "system", "Notice", "Notice",
                                                        [screeningId |-> "s1"]),
                                     NewId(Start(f).db, "notifications")))

MarkNotificationAsRead ==
    \E nid \in NotificationArgs, f \in FailAt :
        /\ budget > 0
        /\ Invoke("markNotificationAsRead", [notificationId |-> nid],
                  markNotificationAsRead(Start(f), nid))

CreateAppointment ==
    \E extra \in {<<>>, [type |-> "doctor"]}, f \in FailAt :
        LET appointmentData == extra @@
                [patientId |-> "p1", patientName |-> "Asha", healthcareWorkerId |-> "h1",
                 requestedDate |-> TS, status |-> "Pending"]
        IN /\ budget > 0
           /\ Invoke("createAppointment", appointmentData,
                     createAppointment(Start(f), appointmentData))

UpdateAppointmentStatus ==
    \E aid \in AppointmentArgs, status \in {"Accepted", "Cancelled"}, f \in FailAt,
       additionalData \in {<<>>, [appointmentTime |-> "10:00 AM"], [status |-> "Pending"]} :
        /\ budget > 0
        /\ Invoke("updateAppointmentStatus",
                  [appointmentId |-> aid, status |-> status, additionalData |-> additionalData],
                  updateAppointmentStatus(Start(f), aid, status, additionalData))

CreateAppointmentNotification ==
    \E f \in FailAt :
        /\ budget > 0
        /\ Invoke("createAppointmentNotification", [recipientId |-> "h1"],
                  createAppointmentNotification(Start(f), "h1", "New Appointment Request",
                                  "${name} has requested an appointment", "a1"))

UpdateDoctorScreeningReviewDetails ==
    \E sid \in ScreeningArgs, hw \in {"h1", ""}, f \in FailAt :
        /\ budget > 0
        /\ Invoke("updateDoctorScreeningReviewDetails",
                  [screeningId |-> sid, reviewStatus |-> "Abnormal",
                   doctorComments |-> "revised", healthcareWorkerId |-> hw],
                  updateDoctorScreeningReviewDetails(Start(f), sid, "Abnormal", "revised",
                                                                 hw, "Devi", "Asha"))

UpdatePatient ==
    \E pid \in PatientArgs, updateData \in {<<>>, [age |-> "34", bloodGroup |-> "O+"]},
       f \in FailAt :
        /\ budget > 0
        /\ Invoke("updatePatient", [patientId |-> pid, updateData |-> updateData],
                  updatePatient(Start(f), pid, updateData))

UpdatePatientWithMissingFields ==
    \E pid \in PatientArgs, f \in FailAt :
        /\ budget > 0
        /\ Invoke("updatePatientWithMissingFields", [patientId |-> pid],
                  updatePatientWithMissingFields(Start(f), pid,
                                  [address |-> "12 Hill Road"]))

UpdateAllPatientsWithMissingFields ==
    \E f \in FailAt :
        /\ budget > 0
        /\ Invoke("updateAllPatientsWithMissingFields", <<>>,
                  updateAllPatientsWithMissingFields(Start(f)))

GetPendingScreenings ==
    \E f \in FailAt :
        /\ budget > 0
        /\ Invoke("getPendingScreenings", <<>>, getPendingScreenings(Start(f)))

GetUserNotifications ==
    \E uid \in {"u1", "h1"}, f \in FailAt :
        /\ budget > 0
        /\ Invoke("getUserNotifications", [userId |-> uid],
                  getUserNotifications(Start(f), uid))

InitAll ==
    /\ db = InitDb
    /\ lastOp = NoOp
    /\ budget = MaxOpsAll
    /\ AuthInit

NextAll ==
    \/ SaveUserData
    \/ UpdateUserData
    \/ SavePatient
    \/ CreateNotification
    \/ MarkNotificationAsRead
    \/ CreateScreeningRecord
    \/ UpdateScreeningImage
    \/ UpdateScreeningReview
    \/ CreateAppointment
    \/ UpdateAppointmentStatus
    \/ CreateAppointmentNotification
    \/ UpdateDoctorScreeningReviewDetails
    \/ CreateDoctorAppointment
    \/ UpdatePatient
    \/ UpdatePatientWithMissingFields
    \/ UpdateAllPatientsWithMissingFields
    \/ GetPendingScreenings
    \/ GetUserNotifications

SpecAll == InitAll /\ [][NextAll]_vars

---------------------------------------------------------------------------
(* services/auth.js: sign-in and the OTP stub.  A value a user can enter   *)
(* is a JavaScript string or number: [t |-> its type, v |-> its digits].   *)

Str(v) == [t |-> "string", v |-> v]
Num(v) == [t |-> "number", v |-> v]

\* a === b
StrictEquals(a, b) == a.t = b.t /\ a.v = b.v

\* a == b (a number and a string compare by value)
LooseEquals(a, b) == a.v = b.v

\* A check that accepts the number 123456 as well as the string.
codeMatchesLoosely(code) == LooseEquals(code, Str("123456"))

\* code === "123456"
codeMatches(code) == StrictEquals(code, Str("123456"))

\* confirmation.confirm(code): resolves to {user: auth.currentUser} or throws.
confirm(code) ==
    IF codeMatches(code)
    THEN [err |-> NoErr, user |-> currentUser]
    ELSE [err |-> "Invalid verification code", user |-> NULL]

\* verifyOTP(confirmation, otp): result.user, or the error rethrown.
verifyOTP(otp) ==
    LET result == confirm(otp)
    IN [called |-> TRUE, otp |-> otp, err |-> result.err, user |-> result.user]

AuthUsers == {"u1", "h1", "d1"}

OtpArgs ==
    {Str("123456"), Num("123456"), Str("12345"), Str("1234567"), Str("123456 "),
     Str(" 123456"), Str("000000"), Str("")}

\* signIn / registerUser: auth.currentUser becomes the user.
SignIn ==
    \E u \in AuthUsers :
        /\ currentUser' = u
        /\ UNCHANGED <<confirmation, otpResult, dataVars, reg, ui, enh, rev>>

SignOut ==
    /\ currentUser # NULL
    /\ currentUser' = NULL
    /\ UNCHANGED <<confirmation, otpResult, dataVars, reg, ui, enh, rev>>

\* sendOTP(phoneNumber): the phone number only reaches console.log; the object
\* returned holds the confirm function and the user signed in at that moment.
SendOTP ==
    /\ confirmation' = [sent |-> TRUE, user |-> currentUser]
    /\ UNCHANGED <<currentUser, otpResult, dataVars, reg, ui, enh, rev>>

VerifyOTP ==
    \E otp \in OtpArgs :
        /\ confirmation.sent
        /\ otpResult' = verifyOTP(otp)
        /\ UNCHANGED <<currentUser, confirmation, dataVars, reg, ui, enh, rev>>

NextOTP ==
    \/ SignIn
    \/ SignOut
    \/ SendOTP
    \/ VerifyOTP

SpecOTP == Init /\ [][NextOTP]_vars

---------------------------------------------------------------------------
(* SpecReg: two users register at the same time.  Each saveUserData call   *)
(* advances one backend call at a time (the awaits of saveUserData), and   *)
(* the calls of the two invocations interleave freely.  A healthcare       *)
(* worker may add a patient meanwhile (savePatient).                       *)

\* saveUserData is entered: handleRegister passes the role chosen on the form.
RegStart(u) ==
    \E role \in {"Patient", "Doctor"} :
        /\ reg[u].pc = "idle"
        /\ reg' = [reg EXCEPT ![u] = [pc |-> IF role = "Patient" THEN "generate" ELSE "users",
                                      role |-> role, patientId |-> NULL]]
        /\ UNCHANGED <<dataVars, authVars, enh, rev, ui>>

\* await generatePatientId()
RegGeneratePatientId(u) ==
    \E f \in {0, 1} :
        LET cx == generatePatientId(StartOn(db, f))
        IN /\ reg[u].pc = "generate"
           /\ reg' = [reg EXCEPT ![u].pc = IF cx.err = NoErr THEN "users" ELSE "failed",
                                 ![u].patientId = cx.ret]
           /\ UNCHANGED <<dataVars, authVars, enh, rev, ui>>

\* await setDoc(doc(firestore, 'users', userId), {...})
RegSetUser(u) ==
    \E f \in {0, 1} :
        LET cx == setDoc(StartOn(db, f), "users", u,
                      [name |-> u, email |-> u \o "@mail", phoneNumber |-> "+9101",
                       role |-> reg[u].role, patientId |-> reg[u].patientId,
                       createdAt |-> TS, updatedAt |-> TS])
        IN /\ reg[u].pc = "users"
           /\ db' = cx.db
           /\ reg' = [reg EXCEPT ![u].pc =
                         IF cx.err # NoErr THEN "failed"
                         ELSE IF reg[u].role = "Patient" THEN "patients" ELSE "done"]
           /\ UNCHANGED <<lastOp, budget, authVars, enh, rev, ui>>

\* await addDoc(collection(firestore, 'patients'), {...})
RegAddPatient(u) ==
    \E f \in {0, 1} :
        LET cx == addDoc(StartOn(db, f), "patients",
                      [name |-> u, phoneNumber |-> "+9101",
                       patientId |-> reg[u].patientId, userId |-> u,
                       createdAt |-> TS, updatedAt |-> TS])
        IN /\ reg[u].pc = "patients"
           /\ db' = cx.db
           /\ reg' = [reg EXCEPT ![u].pc = IF cx.err = NoErr THEN "done" ELSE "failed"]
           /\ UNCHANGED <<lastOp, budget, authVars, enh, rev, ui>>

NextReg ==
    \/ \E u \in Registrants : RegStart(u)
    \/ \E u \in Registrants : RegGeneratePatientId(u)
    \/ \E u \in Registrants : RegSetUser(u)
    \/ \E u \in Registrants : RegAddPatient(u)
    \/ SavePatient

InitReg ==
    /\ db = InitDb
    /\ lastOp = NoOp
    /\ budget = MaxSavePatient
    /\ AuthInit

SpecReg == InitReg /\ [][NextReg]_vars

---------------------------------------------------------------------------
(* SpecScreens: the screen handlers that write appointments, screenings    *)
(* and notifications.  A handler runs to completion; the list a screen     *)
(* shows is refetched after each handler, so the guards of the buttons     *)
(* read the stored documents.  Role-based routing puts the patient u1, the *)
(* healthcare worker h1 and the doctor d1 on their own screens.            *)

\* try { ... } catch (e) { console.error(e) } around part of a handler: the
\* calls stay in the log, the error goes no further.
catchAndLog(cx) == [cx EXCEPT !.err = NoErr]

\* A promise nobody awaits (forEach(async ...)): its rejection reaches no handler.
unobserved(cx) == [cx EXCEPT !.err = NoErr]

CallFailed(cx) == \E i \in 1..Len(cx.calls) : cx.calls[i].err # NoErr

\* The end of a handler: what its catch block shows when the awaited calls
\* threw, what it shows otherwise.
Handled(handler, args, cx, onError, onSuccess) ==
    /\ budget > 0
    /\ cx.failAt <= Len(cx.calls)
    /\ budget' = budget - 1
    /\ db' = cx.db
    /\ lastOp' = [name |-> handler, args |-> args, calls |-> cx.calls,
                  err |-> cx.err, ret |-> cx.ret]
    /\ ui' = [handler |-> handler, failed |-> CallFailed(cx),
              shown |-> IF cx.err # NoErr THEN onError ELSE onSuccess]
    /\ UNCHANGED <<authVars, enh, rev, reg>>

\* A validation that returns before any backend call.
Rejected(handler, args, shown) ==
    /\ budget > 0
    /\ budget' = budget - 1
    /\ lastOp' = [name |-> handler, args |-> args, calls |-> <<>>,
                  err |-> NoErr, ret |-> NULL]
    /\ ui' = [handler |-> handler, failed |-> FALSE, shown |-> shown]
    /\ UNCHANGED <<db, authVars, enh, rev, reg>>

FailAtScreen == 0..10

Doctors(d) == {u \in DOMAIN d.users : d.users[u].role = "Doctor"}

\* doctorsSnapshot.forEach(async (doctorDoc) => { await createNotification(...) })
RECURSIVE notifyDoctors(_, _, _, _)
notifyDoctors(cx, doctors, screeningId, patientId) ==
    IF doctors = {} THEN cx
    ELSE LET doc == CHOOSE x \in doctors : TRUE
         IN notifyDoctors(
                unobserved(createNotification(cx, doc, "SCREENING_UPLOADED",
                    "New Screening Ready for Review",
                    "A new screening for ${patientIdentifier} has been uploaded by ${hcwName} and is ready for review.",
                    [screeningId |-> screeningId, patientId |-> patientId])),
                doctors \ {doc}, screeningId, patientId)

\* ImageCaptureScreen.handleUpload, after uploadImage returned the image URL.
handleUpload(cx, patientId, userId) ==
    LET screeningData == [patientId |-> patientId, imageUrl |-> "img",
                          status |-> "Uploaded", healthcareWorkerId |-> userId]
        c1 == createScreeningRecord(cx, screeningData)
        screeningId == c1.ret
        c2 == getPatient(c1, patientId)
        patientDoc == c2.db.patients[patientId]
        c3 == IF c2.err = NoErr /\ Exists(c2.db, "patients", patientId)
                 /\ Truthy(Get(patientDoc, "userId"))
              THEN createNotification(c2, patientDoc.userId, "SCREENING_UPLOADED",
                       "New Screening Added",
                       "A new screening image has been uploaded for you and is pending review.",
                       [screeningId |-> screeningId, patientId |-> patientId])
              ELSE c2
        c4 == catchAndLog(c3)
        c5 == getUserData(c4, userId)
        c6 == getPatient(c5, patientId)
        c7 == getDocs(c6, "users")
        c8 == IF c7.err = NoErr
              THEN notifyDoctors(c7, Doctors(c7.db), screeningId, patientId)
              ELSE c7
    IN IF c1.err # NoErr THEN c1 ELSE catchAndLog(c8)

HandleUpload ==
    \E outcome \in {"no image", "upload failed", "uploaded"}, f \in FailAtScreen :
        IF outcome = "uploaded"
        THEN Handled("handleUpload", [uploadImage |-> outcome],
                     handleUpload(Start(f), "p1", "h1"), "errorText", "none")
        ELSE /\ f = 0
             /\ Rejected("handleUpload", [uploadImage |-> outcome], "errorText")

\* ReviewScreen.handleSubmitReview
handleSubmitReview(cx, screeningId, diagnosis, comments, doctorId) ==
    updateScreeningReview(cx, screeningId, diagnosis, comments, doctorId)

HandleSubmitReview ==
    \E sid \in DOMAIN db.screenings, diagnosis \in {"Pending", "Normal", "Abnormal"},
       f \in FailAtScreen :
        IF diagnosis = "Pending"
        THEN /\ f = 0
             /\ Rejected("handleSubmitReview", [screeningId |-> sid], "errorText")
        ELSE Handled("handleSubmitReview", [screeningId |-> sid],
                     handleSubmitReview(Start(f), sid, diagnosis, "", "d1"),
                     "errorText", "successText")

\* DoctorAppointmentRequestScreen.handleSubmit
requestDoctorAppointment(cx, patientId, patientName, doctorId) ==
    createDoctorAppointment(cx,
        [patientId |-> patientId, patientName |-> patientName, doctorId |-> doctorId,
         requestedDate |-> TS, notes |-> "", type |-> "doctor"])

RequestDoctorAppointment ==
    \E f \in FailAtScreen :
        /\ Exists(db, "patients", "p1")
        /\ Handled("DoctorAppointmentRequestScreen.handleSubmit", [doctorId |-> "d1"],
                   requestDoctorAppointment(Start(f), "p1", "Asha", "d1"),
                   "errorText", "successAlert")

\* AppointmentRequestScreen.handleSubmit
requestAppointment(cx, patientFirestoreId, userName, selectedHealthcareWorker) ==
    LET c1 == createAppointment(cx,
                  [patientId |-> patientFirestoreId, patientName |-> userName,
                   healthcareWorkerId |-> selectedHealthcareWorker,
                   healthcareWorkerName |-> "Hari", requestedDate |-> TS,
                   appointmentTime |-> "10:00 AM", notes |-> "", status |-> "Pending",
                   patientIdNumber |-> "PT-2025-00001"])
    IN createAppointmentNotification(c1, selectedHealthcareWorker,
           "New Appointment Request",
           "${userData.name} has requested an appointment on ${date} at ${timeSlot}",
           c1.ret)

RequestAppointment ==
    \E f \in FailAtScreen :
        /\ Exists(db, "patients", "p1")
        /\ Handled("AppointmentRequestScreen.handleSubmit", [healthcareWorkerId |-> "h1"],
                   requestAppointment(Start(f), "p1", "Asha", "h1"),
                   "errorAlert", "successAlert")

\* The appointments a screen lists.
getHealthcareWorkerAppointments(d, healthcareWorkerId, statuses) ==
    {a \in DOMAIN d.appointments :
        /\ Get(d.appointments[a], "healthcareWorkerId") = healthcareWorkerId
        /\ d.appointments[a].status \in statuses}

getDoctorAppointments(d, doctorId) ==
    {a \in DOMAIN d.appointments :
        /\ Get(d.appointments[a], "doctorId") = doctorId
        /\ d.appointments[a].type = "doctor"}

getPatientAppointments(d, patientId) ==
    {a \in DOMAIN d.appointments : d.appointments[a].patientId = patientId}

AppointmentStatuses == {"Pending", "Accepted", "Rescheduled", "Completed", "Cancelled"}

\* AllAppointmentsScreen: handleAcceptAppointment, handleCompleteAppointment,
\* handleRescheduleAppointment.  The screen lists every appointment of the worker.
AllAppointmentsAccept ==
    \E a \in getHealthcareWorkerAppointments(db, "h1", {"Pending"}), f \in FailAtScreen :
        Handled("AllAppointmentsScreen.handleAcceptAppointment", [id |-> a],
                updateAppointmentStatus(Start(f), a, "Accepted", [updatedAt |-> TS]),
                "none", "none")

AllAppointmentsComplete ==
    \E a \in getHealthcareWorkerAppointments(db, "h1", {"Accepted", "Rescheduled"}),
       f \in FailAtScreen :
        Handled("AllAppointmentsScreen.handleCompleteAppointment", [id |-> a],
                updateAppointmentStatus(Start(f), a, "Completed",
                    [completedAt |-> TS, updatedAt |-> TS]),
                "none", "none")

AllAppointmentsReschedule ==
    \E a \in getHealthcareWorkerAppointments(db, "h1", {"Pending", "Accepted"}),
       f \in FailAtScreen :
        Handled("AllAppointmentsScreen.handleRescheduleAppointment", [id |-> a],
                updateAppointmentStatus(Start(f), a, "Rescheduled",
                    [rescheduledDate |-> TS, appointmentTime |-> "10:00 AM",
                     updatedAt |-> TS]),
                "none", "none")

\* HealthcareWorkerHomeScreen: the status update, then the notification to the
\* patient's user.
respondAndNotify(cx, appointment, status, additionalData, title, message) ==
    LET c1 == updateAppointmentStatus(cx, appointment, status, additionalData)
        patientId == Get(cx.db.appointments[appointment], "patientId")
        c2 == IF Truthy(patientId) THEN getPatient(c1, patientId) ELSE c1
        patientDoc == c2.db.patients[patientId]
    IN IF /\ c2.err = NoErr /\ Truthy(patientId)
          /\ Exists(c2.db, "patients", patientId)
          /\ Truthy(Get(patientDoc, "userId"))
       THEN createNotification(c2, patientDoc.userId, "APPOINTMENT_UPDATE", title,
                message, [appointmentId |-> appointment])
       ELSE c2

HomeAccept ==
    \E a \in getHealthcareWorkerAppointments(db, "h1", {"Pending"}), f \in FailAtScreen :
        Handled("HealthcareWorkerHomeScreen.handleAcceptAppointment", [id |-> a],
                respondAndNotify(Start(f), a, "Accepted", [updatedAt |-> TS],
                    "Appointment Accepted",
                    "Your appointment for ${appointmentDate} with ${userName} has been accepted."),
                "none", "none")

HomeReschedule ==
    \E a \in getHealthcareWorkerAppointments(db, "h1", {"Pending"}), f \in FailAtScreen :
        Handled("HealthcareWorkerHomeScreen.handleRescheduleAppointment", [id |-> a],
                respondAndNotify(Start(f), a, "Rescheduled",
                    [rescheduledDate |-> TS, appointmentTime |-> "10:00 AM",
                     updatedAt |-> TS],
                    "Appointment Rescheduled",
                    "Your appointment with ${userName} has been rescheduled to ${rescheduleDate} at ${rescheduleTime}."),
                "none", "none")

\* DoctorAppointmentsScreen.handleAppointmentResponse
handleAppointmentResponse(cx, appointmentId, status, patientId) ==
    LET c1 == updateAppointmentStatus(cx, appointmentId, status, [doctorMessage |-> ""])
    IN createAppointmentNotification(c1, patientId,
           IF status = "Accepted" THEN "Appointment Accepted"
           ELSE IF status = "Declined" THEN "Appointment Declined"
           ELSE "Appointment Completed",
           IF status = "Accepted" THEN "Your appointment request has been accepted."
           ELSE IF status = "Declined" THEN "Your appointment request has been declined."
           ELSE "Your appointment has been marked as completed.",
           appointmentId)

HandleAppointmentResponse ==
    \E a \in getDoctorAppointments(db, "d1"), status \in {"Accepted", "Declined", "Completed"},
       f \in FailAtScreen :
        /\ \/ db.appointments[a].status = "Pending" /\ status \in {"Accepted", "Declined"}
           \/ db.appointments[a].status = "Accepted" /\ status = "Completed"
        /\ Handled("DoctorAppointmentsScreen.handleAppointmentResponse",
                   [id |-> a, status |-> status],
                   handleAppointmentResponse(Start(f), a, status,
                                             db.appointments[a].patientId),
                   "errorAlert", "successAlert")

\* PatientAppointmentsScreen.handleCancelAppointment, confirmed with 'Yes'.
HandleCancelAppointment ==
    \E a \in getPatientAppointments(db, "p1"), f \in FailAtScreen :
        /\ db.appointments[a].status \in {"Pending", "Accepted"}
        /\ Handled("PatientAppointmentsScreen.handleCancelAppointment", [id |-> a],
                   updateAppointmentStatus(Start(f), a, "Cancelled", <<>>),
                   "errorAlert", "successAlert")

\* NotificationsScreen.handleMarkAsRead, on a notification of the signed-in user.
HandleMarkAsRead ==
    \E u \in AuthUsers, f \in FailAtScreen :
        \E n \in getUserNotificationsRows(db, u) :
            Handled("NotificationsScreen.handleMarkAsRead", [id |-> n],
                    markNotificationAsRead(Start(f), n), "none", "none")

MaxOpsScreens == 3    \* handlers of one run over the screens (SpecScreens)

InitScreens ==
    /\ db = InitDb
    /\ lastOp = NoOp
    /\ budget = MaxOpsScreens
    /\ AuthInit

NextScreens ==
    \/ HandleUpload
    \/ HandleSubmitReview
    \/ RequestDoctorAppointment
    \/ RequestAppointment
    \/ AllAppointmentsAccept
    \/ AllAppointmentsComplete
    \/ AllAppointmentsReschedule
    \/ HomeAccept
    \/ HomeReschedule
    \/ HandleAppointmentResponse
    \/ HandleCancelAppointment
    \/ HandleMarkAsRead

SpecScreens == InitScreens /\ [][NextScreens]_vars
---------------------------------------------------------------------------
(* SpecWorked: the whole data-access layer again, started after some work  *)
(* has been done: two screenings uploaded for patient p1, the first one    *)
(* reviewed by doctor d1, and the first notification read.                 *)

WorkedDb ==
    LET screeningData == [patientId |-> "p1", imageUrl |-> "img", status |-> "Uploaded",
                          healthcareWorkerId |-> "h1"]
        d1 == createScreeningRecord(StartOn(InitDb, 0), screeningData).db
        d2 == createScreeningRecord(StartOn(d1, 0), screeningData).db
        d3 == updateScreeningReview(StartOn(d2, 0), "s1", "Normal", "ok", "d1").db
    IN markNotificationAsRead(StartOn(d3, 0), "n1").db

InitWorked ==
    /\ db = WorkedDb
    /\ lastOp = NoOp
    /\ budget = MaxOpsAll
    /\ AuthInit

SpecWorked == InitWorked /\ [][NextAll]_vars

---------------------------------------------------------------------------
(* SpecReview: two doctors review the same screening at the same time.     *)
(* Each opens it from the pending list (handleScreeningSelect), submits    *)
(* the form (handleSubmitReview), and the updateScreeningReview call       *)
(* advances one backend call at a time; the calls of the two doctors       *)
(* interleave freely.                                                      *)

\* A review write that keeps the comments and the doctor of an earlier review.
writeReviewKeepingEarlier(cx, screeningId, reviewStatus, doctorComments, doctorId) ==
    IF Exists(cx.db, "screenings", screeningId)
       /\ Get(cx.db.screenings[screeningId], "status") = "Reviewed"
    THEN updateDoc(cx, "screenings", screeningId,
                   [reviewStatus |-> reviewStatus, status |-> "Reviewed", updatedAt |-> TS])
    ELSE updateDoc(cx, "screenings", screeningId,
                   reviewFields(reviewStatus, doctorComments, doctorId))

\* The first await of updateScreeningReview: one updateDoc with all the fields.
writeReview(cx, screeningId, reviewStatus, doctorComments, doctorId) ==
    updateDoc(cx, "screenings", screeningId,
              reviewFields(reviewStatus, doctorComments, doctorId))

ReviewStep(d, pc, cx) ==
    /\ db' = cx.db
    /\ rev' = [rev EXCEPT ![d].pc = IF cx.err # NoErr THEN "failed" ELSE pc]
    /\ UNCHANGED <<lastOp, budget, authVars, reg, ui, enh>>

\* PendingScreeningsScreen.handleScreeningSelect: a reviewed screening opens the
\* report view, any other one (and a failed read) the review form.
ReviewOpen(d) ==
    \E f \in {0, 1} :
        LET cx == getScreeningRecord(StartOn(db, f), "s1")
        IN /\ rev[d].pc = "idle"
           /\ rev' = [rev EXCEPT ![d].screeningId = "s1",
                                 ![d].pc = IF cx.err = NoErr
                                              /\ db.screenings["s1"].status = "Reviewed"
                                           THEN "report" ELSE "form"]
           /\ UNCHANGED <<dataVars, authVars, reg, ui, enh>>

\* handleSubmitReview with the diagnosis and comments of the form, up to the
\* updateDoc of updateScreeningReview.
ReviewWrite(d) ==
    \E diagnosis \in {"Normal", "Abnormal"}, f \in {0, 1} :
        LET comments == "comments of " \o d
            cx == writeReview(StartOn(db, f), rev[d].screeningId, diagnosis, comments, d)
        IN /\ rev[d].pc = "form"
           /\ db' = cx.db
           /\ rev' = [rev EXCEPT ![d].reviewStatus = diagnosis,
                                 ![d].doctorComments = comments,
                                 ![d].pc = IF cx.err # NoErr THEN "failed" ELSE "read"]
           /\ UNCHANGED <<lastOp, budget, authVars, reg, ui, enh>>

\* const screeningData = await getScreeningRecord(screeningId)
ReviewRead(d) ==
    \E f \in {0, 1} :
        LET cx == getScreeningRecord(StartOn(db, f), rev[d].screeningId)
        IN /\ rev[d].pc = "read"
           /\ rev' = [rev EXCEPT ![d].pc = IF cx.err # NoErr THEN "failed" ELSE "patient",
                                 ![d].screeningData =
                                     IF cx.err # NoErr THEN @
                                     ELSE [patientId |-> db.screenings[rev[d].screeningId].patientId,
                                           healthcareWorkerId |->
                                               db.screenings[rev[d].screeningId].healthcareWorkerId]]
           /\ UNCHANGED <<dataVars, authVars, reg, ui, enh>>

\* const patientData = await getPatient(screeningData.patientId)
ReviewGetPatient(d) ==
    \E f \in {0, 1} :
        /\ rev[d].pc = "patient"
        /\ ReviewStep(d, "notifyWorker", getPatient(StartOn(db, f), rev[d].screeningData.patientId))

\* await createNotification(screeningData.healthcareWorkerId, ...)
ReviewNotifyWorker(d) ==
    \E f \in {0, 1} :
        /\ rev[d].pc = "notifyWorker"
        /\ ReviewStep(d, "notifyPatient",
               IF Truthy(rev[d].screeningData.healthcareWorkerId)
               THEN createNotification(StartOn(db, f), rev[d].screeningData.healthcareWorkerId,
                        "ReviewCompleted", "Review Completed",
                        "The screening report for ${patientName} has been reviewed.",
                        [screeningId |-> rev[d].screeningId])
               ELSE StartOn(db, 0))

\* await createNotification(screeningData.patientId, ...)
ReviewNotifyPatient(d) ==
    \E f \in {0, 1} :
        /\ rev[d].pc = "notifyPatient"
        /\ ReviewStep(d, "done",
               IF Truthy(rev[d].screeningData.patientId)
               THEN createNotification(StartOn(db, f), rev[d].screeningData.patientId,
                        "ReviewCompleted", "Review Completed",
                        "Your screening report has been reviewed by the doctor.",
                        [screeningId |-> rev[d].screeningId])
               ELSE StartOn(db, 0))

InitReview ==
    /\ db = createScreeningRecord(StartOn(InitDb, 0),
                [patientId |-> "p1", imageUrl |-> "img", status |-> "Uploaded",
                 healthcareWorkerId |-> "h1"]).db
    /\ lastOp = NoOp
    /\ budget = 0
    /\ AuthInit

NextReview ==
    \/ \E d \in Reviewers : ReviewOpen(d)
    \/ \E d \in Reviewers : ReviewWrite(d)
    \/ \E d \in Reviewers : ReviewRead(d)
    \/ \E d \in Reviewers : ReviewGetPatient(d)
    \/ \E d \in Reviewers : ReviewNotifyWorker(d)
    \/ \E d \in Reviewers : ReviewNotifyPatient(d)

SpecReview == InitReview /\ [][NextReview]_vars

---------------------------------------------------------------------------
(* SpecEnhance: ImageEnhancementScreen.  The screen loads one screening,   *)
(* the sliders change the transformations, the effect recomputes the       *)
(* preview URL after every change, and handleConfirm stores the final URL  *)
(* and leaves the screen.                                                  *)

\* String.prototype.endsWith
endsWith(str, suffix) ==
    /\ Len(str) >= Len(suffix)
    /\ SubSeq(str, Len(str) - Len(suffix) + 1, Len(str)) = suffix

\* String.prototype.indexOf, 1-based; 0 when sep does not occur at or after from
RECURSIVE indexOf(_, _, _)
indexOf(str, sep, from) ==
    IF from + Len(sep) - 1 > Len(str) THEN 0
    ELSE IF SubSeq(str, from, from + Len(sep) - 1) = sep THEN from
    ELSE indexOf(str, sep, from + 1)

\* String.prototype.split with a non-empty separator
RECURSIVE split(_, _)
split(str, sep) ==
    LET i == indexOf(str, sep, 1)
    IN IF i = 0 THEN <<str>>
       ELSE <<SubSeq(str, 1, i - 1)>> \o split(SubSeq(str, i + Len(sep), Len(str)), sep)

\* A preview that leaves the trailing comma of the transformation string in place.
previewUrlKeepingComma(originalImageUrl, transformations) ==
    LET t == (IF transformations.brightness # 0
              THEN "e_brightness:" \o ToString(transformations.brightness) \o "," ELSE "")
             \o (IF transformations.contrast # 0
                 THEN "e_contrast:" \o ToString(transformations.contrast) \o "," ELSE "")
             \o (IF transformations.saturation # 0
                 THEN "e_saturation:" \o ToString(transformations.saturation) \o "," ELSE "")
             \o (IF transformations.sharpness # 0
                 THEN "e_sharpen:" \o ToString(transformations.sharpness) \o "," ELSE "")
        urlParts == split(originalImageUrl, "/upload/")
    IN IF t # "" /\ Len(urlParts) = 2
       THEN urlParts[1] \o "/upload/" \o t \o "/" \o urlParts[2]
       ELSE originalImageUrl

\* The effect on [transformations, originalImageUrl]: the value of previewUrl
\* after it has run (it returns early, leaving previewUrl at the original '',
\* when originalImageUrl is empty).
previewUrlEffect(originalImageUrl, transformations) ==
    LET t1 == IF transformations.brightness # 0
              THEN "e_brightness:" \o ToString(transformations.brightness) \o "," ELSE ""
        t2 == t1 \o IF transformations.contrast # 0
                    THEN "e_contrast:" \o ToString(transformations.contrast) \o "," ELSE ""
        t3 == t2 \o IF transformations.saturation # 0
                    THEN "e_saturation:" \o ToString(transformations.saturation) \o "," ELSE ""
        t4 == t3 \o IF transformations.sharpness # 0
                    THEN "e_sharpen:" \o ToString(transformations.sharpness) \o "," ELSE ""
        transformationString == IF endsWith(t4, ",") THEN SubSeq(t4, 1, Len(t4) - 1) ELSE t4
        urlParts == split(originalImageUrl, "/upload/")
    IN IF originalImageUrl = "" THEN originalImageUrl
       ELSE IF transformationString # ""
       THEN IF Len(urlParts) = 2
            THEN urlParts[1] \o "/upload/" \o transformationString \o "/" \o urlParts[2]
            ELSE originalImageUrl
       ELSE originalImageUrl

\* The image URLs of the stored screenings: Cloudinary URLs, URLs without or
\* with more than one '/upload/', and one that starts with it.
ImageUrls == <<"c/upload/v1/s.jpg", "img", "a/upload/b/upload/c", "/upload/upload/x">>

RECURSIVE withScreenings(_, _)
withScreenings(d, urls) ==
    IF urls = <<>> THEN d
    ELSE withScreenings(
             createScreeningRecord(StartOn(d, 0),
                 [patientId |-> "p1", imageUrl |-> Head(urls), status |-> "Uploaded",
                  healthcareWorkerId |-> "h1"]).db,
             Tail(urls))

\* fetchScreeningData: getScreeningRecord, getPatient, then the two setters
\* and the effect they trigger.
FetchScreeningData ==
    \E sid \in DOMAIN db.screenings, f \in 0..2 :
        LET c1 == getScreeningRecord(Start(f), sid)
            c2 == getPatient(c1, db.screenings[sid].patientId)
            url == db.screenings[sid].imageUrl
        IN /\ enh.phase = "loading"
           /\ enh' = IF c2.err # NoErr
                     THEN [enh EXCEPT !.phase = "ready", !.screeningId = sid,
                                      !.error = "Failed to load screening data. Please try again."]
                     ELSE [enh EXCEPT !.phase = "ready", !.screeningId = sid,
                                      !.originalImageUrl = url,
                                      !.previewUrl = previewUrlEffect(url, enh.transformations)]
           /\ lastOp' = [name |-> "fetchScreeningData", args |-> [screeningId |-> sid],
                         calls |-> c2.calls, err |-> c2.err, ret |-> NULL]
           /\ UNCHANGED <<db, budget, authVars, reg, ui, rev>>

\* A slider's onValueChange, then the effect.
SliderValues == {-20, 0, 10}
SharpnessValues == {0, 5}

SetTransformation ==
    \E name \in DOMAIN NoTransformations, value \in SliderValues \cup SharpnessValues :
        LET t == [enh.transformations EXCEPT ![name] = value]
        IN /\ enh.phase = "ready"
           /\ value \in (IF name = "sharpness" THEN SharpnessValues ELSE SliderValues)
           /\ enh' = [enh EXCEPT !.transformations = t,
                                 !.previewUrl = IF enh.originalImageUrl = "" THEN @
                                                ELSE previewUrlEffect(enh.originalImageUrl, t)]
           /\ UNCHANGED <<dataVars, authVars, reg, ui, rev>>

ResetTransformations ==
    /\ enh.phase = "ready"
    /\ enh' = [enh EXCEPT !.transformations = NoTransformations,
                          !.previewUrl = IF enh.originalImageUrl = "" THEN @
                                         ELSE previewUrlEffect(enh.originalImageUrl,
                                                               NoTransformations)]
    /\ UNCHANGED <<dataVars, authVars, reg, ui, rev>>

\* ImageEnhancementScreen.handleConfirm
HandleConfirm ==
    \E f \in 0..1 :
        LET hasTransformations == \/ enh.transformations.brightness # 0
                                  \/ enh.transformations.contrast # 0
                                  \/ enh.transformations.saturation # 0
                                  \/ enh.transformations.sharpness # 0
            finalImageUrl == IF hasTransformations THEN enh.previewUrl
                             ELSE enh.originalImageUrl
            cx == updateScreeningImage(Start(f), enh.screeningId, finalImageUrl)
        IN /\ enh.phase = "ready"
           /\ db' = cx.db
           /\ lastOp' = [name |-> "handleConfirm", args |-> [finalImageUrl |-> finalImageUrl],
                         calls |-> cx.calls, err |-> cx.err, ret |-> cx.ret]
           /\ enh' = IF cx.err # NoErr
                     THEN [enh EXCEPT !.error = "Failed to save enhanced image. Please try again."]
                     ELSE [enh EXCEPT !.phase = "left", !.error = ""]
           /\ UNCHANGED <<budget, authVars, reg, ui, rev>>

InitEnhance ==
    /\ db = withScreenings(InitDb, ImageUrls)
    /\ lastOp = NoOp
    /\ budget = 0
    /\ AuthInit

NextEnhance ==
    \/ FetchScreeningData
    \/ SetTransformation
    \/ ResetTransformations
    \/ HandleConfirm

SpecEnhance == InitEnhance /\ [][NextEnhance]_vars

---------------------------------------------------------------------------
(* Properties *)

Collections == {"users", "patients", "screenings", "appointments", "notifications"}

Succeeded(name) == lastOp.name = name /\ lastOp.err = NoErr

\* The number of notifications of a type about a screening.
NotificationsAbout(type, screeningId) ==
    Cardinality({n \in DOMAIN db.notifications :
        /\ db.notifications[n].type = type
        /\ db.notifications[n].data = [screeningId |-> screeningId]})

\* C1: whenever updateScreeningReview succeeds, the stored screening has status
\* 'Reviewed' and its reviewStatus, doctorComments and doctorId equal the
\* arguments, whatever the screening's status was before the call.
C1_ReviewStored ==
    Succeeded("updateScreeningReview") =>
        /\ lastOp.args.screeningId \in DOMAIN db.screenings
        /\ LET s == db.screenings[lastOp.args.screeningId]
           IN /\ s.status = "Reviewed"
              /\ s.reviewStatus = lastOp.args.reviewStatus
              /\ s.doctorComments = lastOp.args.doctorComments
              /\ s.doctorId = lastOp.args.doctorId

\* C1 witness: a second review of a screening has succeeded, so the status
\* before it was 'Reviewed'; the first found it 'Uploaded'.
C1_Witness ==
    /\ Succeeded("updateScreeningReview")
    /\ lastOp.args.doctorId = "d2"
    /\ NotificationsAbout("ReviewCompleted", lastOp.args.screeningId) = 4

\* C1 witness for a screening created with status 'Pending' (no worker to notify).
C1_WitnessPending ==
    /\ Succeeded("updateScreeningReview")
    /\ db.screenings[lastOp.args.screeningId].healthcareWorkerId = ""
    /\ NotificationsAbout("ReviewCompleted", lastOp.args.screeningId) = 1

\* C2: after a successful updateAppointmentStatus the stored appointment's
\* status equals the status argument, for every additionalData object.
C2_StatusStored ==
    Succeeded("updateAppointmentStatus") =>
        db.appointments[lastOp.args.appointmentId].status = lastOp.args.status

\* C2, for the additionalData objects that carry no 'status' field.
C2_StatusStoredWithoutOverride ==
    (Succeeded("updateAppointmentStatus")
        /\ "status" \notin DOMAIN lastOp.args.additionalData) =>
        db.appointments[lastOp.args.appointmentId].status = lastOp.args.status

\* C7: no operation removes a document: every document of every collection
\* still exists after every step, so no collection shrinks.
C7_NoDocumentRemoved ==
    [][\A c \in Collections : DOMAIN db[c] \subseteq DOMAIN db'[c]]_vars

\* C7 witness: an appointment was cancelled and its document is still stored.
C7_Witness ==
    /\ Succeeded("updateAppointmentStatus")
    /\ lastOp.args.status = "Cancelled"
    /\ lastOp.args.appointmentId \in DOMAIN db.appointments

\* C8: when a backend call of an invocation fails, it is the last backend call
\* of that invocation, and the invocation throws that call's error.
C8_NoRetry ==
    \A i \in 1..Len(lastOp.calls) :
        lastOp.calls[i].err # NoErr =>
            /\ i = Len(lastOp.calls)
            /\ lastOp.err = lastOp.calls[i].err

\* C8 witness: updateScreeningReview failed at its third backend call.
C8_Witness ==
    /\ lastOp.name = "updateScreeningReview"
    /\ Len(lastOp.calls) = 3
    /\ lastOp.calls[3].err = "unavailable"
    /\ lastOp.err = "unavailable"

PartialFailure ==
    /\ lastOp.name \in {"createScreeningRecord", "createDoctorAppointment",
                        "updateScreeningReview"}
    /\ Len(lastOp.calls) >= 2
    /\ lastOp.calls[1].err = NoErr
    /\ lastOp.calls[Len(lastOp.calls)].err # NoErr

\* The primary write of the last invocation is stored as written.
PrimaryWriteStored ==
    LET c == lastOp.calls[1]
    IN /\ c.id \in DOMAIN db[c.coll]
       /\ LET d == db[c.coll][c.id]
          IN CASE lastOp.name = "createScreeningRecord" ->
                    \A k \in DOMAIN lastOp.args : d[k] = lastOp.args[k]
               [] lastOp.name = "createDoctorAppointment" ->
                    /\ d.status = "Pending"
                    /\ d.type = "doctor"
                    /\ d.patientId = lastOp.args.patientId
                    /\ d.doctorId = lastOp.args.doctorId
               [] OTHER ->
                    /\ d.status = "Reviewed"
                    /\ d.reviewStatus = lastOp.args.reviewStatus
                    /\ d.doctorComments = lastOp.args.doctorComments
                    /\ d.doctorId = lastOp.args.doctorId

\* C10: in createScreeningRecord, createDoctorAppointment and
\* updateScreeningReview, when the primary write succeeds and a later read or
\* notification write fails, the operation throws, the primary write is stored
\* as written, and so is every notification the invocation had already written.
C10_NoRollback ==
    PartialFailure =>
        /\ lastOp.err # NoErr
        /\ PrimaryWriteStored
        /\ \A i \in 1..Len(lastOp.calls) :
              (lastOp.calls[i].op = "addDoc" /\ lastOp.calls[i].err = NoErr) =>
                  lastOp.calls[i].id \in DOMAIN db[lastOp.calls[i].coll]

\* C10 witness: updateScreeningReview wrote the review and the worker's
\* notification, and the patient's notification failed.
C10_Witness ==
    /\ lastOp.name = "updateScreeningReview"
    /\ Len(lastOp.calls) = 5
    /\ lastOp.calls[4].err = NoErr
    /\ lastOp.calls[5].err # NoErr

\* C10 witness for createDoctorAppointment: the appointment was added and the
\* doctor's notification failed.
C10_WitnessAppointment ==
    /\ lastOp.name = "createDoctorAppointment"
    /\ PartialFailure

\* C3: for the confirmation object sendOTP returned, verifyOTP succeeds and
\* returns the current auth user if and only if the code is exactly the string
\* "123456"; for every other code it throws 'Invalid verification code' and
\* returns nothing.
\* (Stated of the step that makes the call: the user signed in may change later.)
C3_OtpStub ==
    [][otpResult' # otpResult =>
          /\ confirmation.sent
          /\ IF otpResult'.otp = Str("123456")
             THEN otpResult'.err = NoErr /\ otpResult'.user = currentUser
             ELSE otpResult'.err = "Invalid verification code" /\ otpResult'.user = NULL]_vars

\* C3 witness: the number 123456 was entered and rejected while a user is
\* signed in and a confirmation object exists.
C3_Witness ==
    /\ confirmation.sent
    /\ currentUser = "u1"
    /\ otpResult.called
    /\ otpResult.otp = Num("123456")
    /\ otpResult.err = "Invalid verification code"

\* C3 witness: the code "123456" was accepted for a signed-in user.
C3_WitnessAccepted ==
    /\ otpResult.called
    /\ otpResult.otp = Str("123456")
    /\ otpResult.err = NoErr
    /\ otpResult.user = "d1"

PatientUsers == {u \in DOMAIN db.users : db.users[u].role = "Patient"}

\* C4: the patientId values stored for any two users registered with role
\* 'Patient' are different, in every interleaving of the backend calls of their
\* saveUserData invocations and also when a patients write fails.
C4_UniquePatientIds ==
    \A u, v \in PatientUsers :
        u # v => db.users[u].patientId # db.users[v].patientId

\* The notifications createScreeningRecord, updateScreeningReview and
\* createDoctorAppointment address to the patient.
PatientMessages ==
    {"Your cervical screening report has been uploaded.",
     "Your screening report has been reviewed by the doctor.",
     "Your appointment request with a doctor has been submitted."}

\* The patients document a patient notification is about.
PatientOf(n) ==
    IF "screeningId" \in DOMAIN db.notifications[n].data
    THEN db.screenings[db.notifications[n].data.screeningId].patientId
    ELSE db.appointments[db.notifications[n].data.appointmentId].patientId

\* C5: the recipientId of every patient notification created by
\* createScreeningRecord, updateScreeningReview and createDoctorAppointment is
\* the auth user ID of the patient, so that getUserNotifications(userId),
\* called by the patient's screens with that ID, returns the notification.
C5_PatientNotificationReachesPatient ==
    \A n \in DOMAIN db.notifications :
        (/\ db.notifications[n].message \in PatientMessages
         /\ PatientOf(n) \in DOMAIN db.patients)
        => /\ db.notifications[n].recipientId = db.patients[PatientOf(n)].userId
           /\ n \in getUserNotificationsRows(db, db.patients[PatientOf(n)].userId)

\* C6: after any sequence of screen actions, the status of every stored
\* appointment is one of Pending, Accepted, Rescheduled, Completed, Cancelled.
C6_AppointmentStatusInType ==
    \A a \in DOMAIN db.appointments : db.appointments[a].status \in AppointmentStatuses

\* C9: whenever a data-access call made by a screen handler fails, the handler
\* ends with the screen showing an alert or an error text.
C9_FailureSurfaced ==
    ui.failed => ui.shown \in {"errorAlert", "errorText"}

\* The 'e_<name>:<value>' items of the non-zero values, in the order
\* brightness, contrast, saturation, sharpen.
effectItems(transformations) ==
    SelectSeq(<<<<"e_brightness:", transformations.brightness>>,
                <<"e_contrast:", transformations.contrast>>,
                <<"e_saturation:", transformations.saturation>>,
                <<"e_sharpen:", transformations.sharpness>>>>,
              LAMBDA item : item[2] # 0)

RECURSIVE commaJoined(_)
commaJoined(items) ==
    IF items = <<>> THEN ""
    ELSE Head(items)[1] \o ToString(Head(items)[2])
         \o (IF Len(items) > 1 THEN "," ELSE "") \o commaJoined(Tail(items))

\* C11: the preview URL equals the original URL when all four values are 0 or
\* when the original does not split into exactly two parts at '/upload/';
\* otherwise it is prefix + '/upload/' + T + '/' + suffix, T being the
\* comma-joined 'e_<name>:<value>' items of exactly the non-zero values, in the
\* order brightness, contrast, saturation, sharpen, with no trailing comma.
C11_PreviewUrl ==
    LET parts == split(enh.originalImageUrl, "/upload/")
    IN enh.previewUrl =
           IF enh.transformations = NoTransformations \/ Len(parts) # 2
           THEN enh.originalImageUrl
           ELSE parts[1] \o "/upload/" \o commaJoined(effectItems(enh.transformations))
                \o "/" \o parts[2]

\* C11: the URL handleConfirm stores is that preview URL.
C11_StoredUrl ==
    (lastOp.name = "handleConfirm" /\ lastOp.err = NoErr)
        => db.screenings[enh.screeningId].adjustedImageUrl = enh.previewUrl

C11_Witness ==
    /\ enh.originalImageUrl = "c/upload/v1/s.jpg"
    /\ enh.transformations = [brightness |-> 10, contrast |-> 0, saturation |-> -20,
                              sharpness |-> 5]
    /\ enh.previewUrl = "c/upload/e_brightness:10,e_saturation:-20,e_sharpen:5/v1/s.jpg"
    /\ enh.phase = "left"

C11_WitnessNotSplit ==
    /\ enh.originalImageUrl = "a/upload/b/upload/c"
    /\ enh.transformations.contrast = 10
    /\ enh.previewUrl = "a/upload/b/upload/c"

\* C12: after a successful updatePatient(patientId, updateData) every field of
\* the stored patient that is not a key of updateData, other than updatedAt,
\* has the value it had before the call.
C12_UpdatePatientFrame ==
    [][(lastOp'.name = "updatePatient" /\ lastOp'.err = NoErr) =>
          LET patientId == lastOp'.args.patientId
              updateData == lastOp'.args.updateData
          IN \A field \in DOMAIN db.patients[patientId] \ (DOMAIN updateData \cup {"updatedAt"}) :
                 db'.patients[patientId][field] = db.patients[patientId][field]]_vars

\* C12, for the fields updatePatient has no default for: they are kept.
C12_FieldsWithoutDefaultKept ==
    [][(lastOp'.name = "updatePatient" /\ lastOp'.err = NoErr) =>
          LET patientId == lastOp'.args.patientId
              updateData == lastOp'.args.updateData
          IN \A field \in DOMAIN db.patients[patientId]
                     \ (DOMAIN updateData \cup {"updatedAt", "email", "address", "bloodGroup",
                                                "menstrualStatus", "symptoms", "medicalHistory"}) :
                 db'.patients[patientId][field] = db.patients[patientId][field]]_vars

MedicalFields == {"email", "address", "bloodGroup", "menstrualStatus", "medicalHistory"}

\* A patient lacking at least one of the six fields: absent or empty.
Lacking(patient) ==
    \/ \E field \in MedicalFields : ~Truthy(Get(patient, field))
    \/ "symptoms" \notin DOMAIN patient
    \/ patient.symptoms = <<>>

\* C13: updateAllPatientsWithMissingFields returns the number of patients
\* lacking at least one of email, address, bloodGroup, menstrualStatus,
\* symptoms, medicalHistory; patients lacking none are left unchanged; and in
\* each updated patient every one of the six fields that already had a
\* non-empty value keeps it.
C13_UpdateAllKeepsValues ==
    [][(lastOp'.name = "updateAllPatientsWithMissingFields" /\ lastOp'.err = NoErr) =>
          /\ lastOp'.ret = Cardinality({p \in DOMAIN db.patients : Lacking(db.patients[p])})
          /\ \A p \in DOMAIN db.patients :
                IF ~Lacking(db.patients[p])
                THEN db'.patients[p] = db.patients[p]
                ELSE /\ \A field \in MedicalFields :
                           Truthy(Get(db.patients[p], field))
                               => db'.patients[p][field] = db.patients[p][field]
                     /\ ("symptoms" \in DOMAIN db.patients[p] /\ db.patients[p].symptoms # <<>>)
                            => db'.patients[p].symptoms = db.patients[p].symptoms]_vars

\* C13, the count alone: the result is the number of patients lacking a field,
\* and the others are left unchanged.
C13_CountAndUntouched ==
    [][(lastOp'.name = "updateAllPatientsWithMissingFields" /\ lastOp'.err = NoErr) =>
          /\ lastOp'.ret = Cardinality({p \in DOMAIN db.patients : Lacking(db.patients[p])})
          /\ \A p \in DOMAIN db.patients :
                ~Lacking(db.patients[p]) => db'.patients[p] = db.patients[p]]_vars

Uploaded(d) == {id \in DOMAIN d.screenings : Get(d.screenings[id], "status") = "Uploaded"}

\* C14: a successful getPendingScreenings returns exactly the screenings whose
\* stored status is 'Uploaded', each once; and no operation takes a screening
\* out of status 'Reviewed', so a reviewed screening is never returned by a
\* later call, also after updateScreeningImage or
\* updateDoctorScreeningReviewDetails on it.
C14_PendingAreUploaded ==
    [][/\ \A id \in DOMAIN db.screenings :
             Get(db.screenings[id], "status") = "Reviewed"
                 => Get(db'.screenings[id], "status") = "Reviewed"
       /\ (lastOp'.name = "getPendingScreenings" /\ lastOp'.err = NoErr) =>
             /\ {lastOp'.ret[i].id : i \in 1..Len(lastOp'.ret)} = Uploaded(db')
             /\ Len(lastOp'.ret) = Cardinality(Uploaded(db'))]_vars

C14_Witness ==
    /\ Succeeded("getPendingScreenings")
    /\ db.screenings["s1"].status = "Reviewed"
    /\ "adjustedImageUrl" \in DOMAIN db.screenings["s1"]
    /\ Len(lastOp.ret) = 1
    /\ lastOp.ret[1].id = "s2"

C14_WitnessDetails ==
    /\ Succeeded("getPendingScreenings")
    /\ db.screenings["s1"].status = "Reviewed"
    /\ db.screenings["s1"].doctorComments = "revised"
    /\ Len(lastOp.ret) = 1

\* C15: every notification is created with read = false, a successful
\* markNotificationAsRead leaves read = true, and a notification whose read
\* flag is true never has it false again.
C15_ReadMonotone ==
    [][/\ \A n \in DOMAIN db'.notifications \ DOMAIN db.notifications :
             db'.notifications[n].read = FALSE
       /\ \A n \in DOMAIN db.notifications :
             db.notifications[n].read => db'.notifications[n].read
       /\ (lastOp'.name = "markNotificationAsRead" /\ lastOp'.err = NoErr)
             => db'.notifications[lastOp'.args.notificationId].read]_vars

\* A read notification is marked again, and stays read.
C15_Witness ==
    /\ Succeeded("markNotificationAsRead")
    /\ lastOp.args.notificationId = "n1"
    /\ db.notifications["n1"].read
    /\ budget < MaxOpsAll

\* A notification is created by createAppointmentNotification, unread.
C15_WitnessCreated ==
    /\ Succeeded("createAppointmentNotification")
    /\ \E n \in DOMAIN db.notifications :
           db.notifications[n].type = "appointment" /\ ~db.notifications[n].read

\* C16: when saveUserData succeeds with role 'Patient', a users document for
\* userId exists and exactly one new patients document was added, whose userId
\* is userId and whose patientId is the patientId stored in the users document;
\* when it succeeds with another role, the users document has patientId null
\* and no patients document was added.
C16_SaveUserDataPostcondition ==
    [][(lastOp'.name = "saveUserData" /\ lastOp'.err = NoErr) =>
          LET userId == lastOp'.args.userId
              added == DOMAIN db'.patients \ DOMAIN db.patients
          IN /\ userId \in DOMAIN db'.users
             /\ db'.users[userId].role = lastOp'.args.role
             /\ DOMAIN db.patients \subseteq DOMAIN db'.patients
             /\ IF lastOp'.args.role = "Patient"
                THEN /\ Cardinality(added) = 1
                     /\ \A p \in added :
                           /\ db'.patients[p].userId = userId
                           /\ db'.patients[p].patientId = db'.users[userId].patientId
                           /\ db'.patients[p].patientId # NULL
                ELSE /\ db'.users[userId].patientId = NULL
                     /\ added = {}]_vars

C16_Witness ==
    /\ Succeeded("saveUserData")
    /\ lastOp.args.role = "Patient"
    /\ db.users["u2"].patientId = "PT-2025-00002"
    /\ \E p \in DOMAIN db.patients : db.patients[p].userId = "u2"

C16_WitnessDoctor ==
    /\ Succeeded("saveUserData")
    /\ lastOp.args.role = "Doctor"
    /\ db.users["u2"].patientId = NULL

\* C17: a successful updateDoctorScreeningReviewDetails changes only
\* reviewStatus, doctorComments and updatedAt of the screening, its status and
\* doctorId being the same after the call as before; and it creates exactly one
\* 'ReviewUpdated' notification addressed to healthcareWorkerId when that
\* argument is non-empty, and no notification when it is empty.
C17_ReviewDetailsFrame ==
    [][(lastOp'.name = "updateDoctorScreeningReviewDetails" /\ lastOp'.err = NoErr) =>
          LET screeningId == lastOp'.args.screeningId
              healthcareWorkerId == lastOp'.args.healthcareWorkerId
              before == db.screenings[screeningId]
              after == db'.screenings[screeningId]
              created == DOMAIN db'.notifications \ DOMAIN db.notifications
          IN /\ DOMAIN after = DOMAIN before \cup {"reviewStatus", "doctorComments", "updatedAt"}
             /\ \A field \in DOMAIN before \ {"reviewStatus", "doctorComments", "updatedAt"} :
                    after[field] = before[field]
             /\ Get(after, "status") = Get(before, "status")
             /\ Get(after, "doctorId") = Get(before, "doctorId")
             /\ after.reviewStatus = lastOp'.args.reviewStatus
             /\ after.doctorComments = lastOp'.args.doctorComments
             /\ \A s \in DOMAIN db.screenings \ {screeningId} :
                    db'.screenings[s] = db.screenings[s]
             /\ \A n \in DOMAIN db.notifications : db'.notifications[n] = db.notifications[n]
             /\ IF healthcareWorkerId # ""
                THEN /\ Cardinality(created) = 1
                     /\ \A n \in created :
                           /\ db'.notifications[n].type = "ReviewUpdated"
                           /\ db'.notifications[n].recipientId = healthcareWorkerId
                ELSE created = {}]_vars

\* The review of s1, made by d1, is edited and the healthcare worker notified.
C17_Witness ==
    /\ Succeeded("updateDoctorScreeningReviewDetails")
    /\ lastOp.args.screeningId = "s1"
    /\ lastOp.args.healthcareWorkerId = "h1"
    /\ db.screenings["s1"].status = "Reviewed"
    /\ db.screenings["s1"].doctorId = "d1"
    /\ db.screenings["s1"].reviewStatus = "Abnormal"
    /\ \E n \in DOMAIN db.notifications : db.notifications[n].type = "ReviewUpdated"

\* The screening s2, not yet reviewed, is edited with no healthcare worker given.
C17_WitnessNoWorker ==
    /\ Succeeded("updateDoctorScreeningReviewDetails")
    /\ lastOp.args.screeningId = "s2"
    /\ lastOp.args.healthcareWorkerId = ""
    /\ db.screenings["s2"].status = "Uploaded"
    /\ \A n \in DOMAIN db.notifications : db.notifications[n].type # "ReviewUpdated"

\* C18: createDoctorAppointment stores the new appointment with type 'doctor'
\* and status 'Pending' whatever type or status the supplied data carry,
\* createAppointment stores type 'screening' whatever type the supplied data
\* carry, and each returns the id of the one document it added.
C18_TypeAndStatusFixed ==
    [][(lastOp'.name \in {"createDoctorAppointment", "createAppointment"}
           /\ lastOp'.err = NoErr) =>
          LET added == DOMAIN db'.appointments \ DOMAIN db.appointments
          IN /\ added = {lastOp'.ret}
             /\ \A a \in DOMAIN db.appointments : db'.appointments[a] = db.appointments[a]
             /\ IF lastOp'.name = "createDoctorAppointment"
                THEN /\ db'.appointments[lastOp'.ret].type = "doctor"
                     /\ db'.appointments[lastOp'.ret].status = "Pending"
                ELSE db'.appointments[lastOp'.ret].type = "screening"]_vars

\* createDoctorAppointment was given type 'screening' and status 'Accepted'.
C18_Witness ==
    /\ Succeeded("createDoctorAppointment")
    /\ lastOp.args.type = "screening"
    /\ lastOp.args.status = "Accepted"
    /\ db.appointments[lastOp.ret].type = "doctor"
    /\ db.appointments[lastOp.ret].status = "Pending"

\* createAppointment was given type 'doctor'.
C18_WitnessScreening ==
    /\ Succeeded("createAppointment")
    /\ Get(lastOp.args, "type") = "doctor"
    /\ db.appointments[lastOp.ret].type = "screening"

\* The doctor whose updateDoc this step is, if it is one that succeeded.
Wrote(d) == rev[d].pc = "form" /\ rev'[d].pc = "read"

\* C19: when two doctors submit reviews of the same screening concurrently, in
\* every interleaving the stored reviewStatus, doctorComments and doctorId all
\* come from one and the same submission, the later write, and the status is
\* 'Reviewed': each successful write stores the whole submission of its doctor,
\* and no other step changes the screening.
C19_OneSubmissionStored ==
    [][IF \E d \in Reviewers : Wrote(d)
       THEN \A d \in Reviewers :
                Wrote(d) =>
                    /\ db'.screenings["s1"].reviewStatus = rev'[d].reviewStatus
                    /\ db'.screenings["s1"].doctorComments = rev'[d].doctorComments
                    /\ db'.screenings["s1"].doctorId = d
                    /\ db'.screenings["s1"].status = "Reviewed"
       ELSE db'.screenings = db.screenings]_vars

\* C19, as a state: once reviewed, the stored review is the whole submission of
\* one of the doctors who wrote.
C19_StoredIsSomeSubmission ==
    db.screenings["s1"].status = "Reviewed" =>
        \E d \in Reviewers :
            /\ rev[d].pc \in {"read", "patient", "notifyWorker", "notifyPatient", "done", "failed"}
            /\ db.screenings["s1"].reviewStatus = rev[d].reviewStatus
            /\ db.screenings["s1"].doctorComments = rev[d].doctorComments
            /\ db.screenings["s1"].doctorId = d

\* Both doctors opened the screening while it was 'Uploaded' and both calls ran
\* to the end with different diagnoses; d2 wrote last.
C19_Witness ==
    /\ rev["d1"].pc = "done"
    /\ rev["d2"].pc = "done"
    /\ rev["d1"].reviewStatus = "Normal"
    /\ rev["d2"].reviewStatus = "Abnormal"
    /\ db.screenings["s1"].doctorId = "d2"
    /\ db.screenings["s1"].reviewStatus = "Abnormal"
    /\ db.screenings["s1"].doctorComments = "comments of d2"

====
